---------------------------- MODULE Spec2Model ----------------------------
(***************************************************************************)
(* Mesh DFU bootloader core (bootloader_mesh.c): the DFU state machine,    *)
(* its packet handlers and the transaction bookkeeping.                    *)
(*                                                                         *)
(* 32-bit unsigned values whose wrap-around matters (addresses, lengths)   *)
(* are kept at full width as pairs <<hi, lo>> of 16-bit halves, because    *)
(* the model checker's integers stop at 2^31 - 1.                          *)
(***************************************************************************)
EXTENDS Integers, Sequences, FiniteSets, TLC

(***************************************************************************)
(* Program constants                                                       *)
(***************************************************************************)
REQ_CACHE_SIZE == 4
TRANSACTION_ID_CACHE_SIZE == 8
PAGE_SIZE == 1024
SD_VERSION_INVALID == 0
APP_VERSION_INVALID == 0
UINT16_MAX == 65535
PoolSize == 2
H16 == 256 * 256

(***************************************************************************)
(* Bounds of the model                                                     *)
(***************************************************************************)
MaxTid == 2
MaxAuth == 2
MaxSeg == 2
MaxEvictTid == 9
MaxInsertions == 10
MaxReqSeg == 5
MaxServes == 11

(***************************************************************************)
(* uint32_t arithmetic on <<hi, lo>> pairs, every result modulo 2^32       *)
(***************************************************************************)
U32(hi, lo) == <<hi, lo>>
NULL == <<0, 0>>

u32_raw_add(a, b) ==
    LET lo == a[2] + b[2]
        hi == a[1] + b[1] + (lo \div H16)
    IN  [carry |-> hi \div H16, val |-> <<hi % H16, lo % H16>>]

u32_add(a, b) == u32_raw_add(a, b).val

u32_sub(a, b) ==
    LET lo == a[2] - b[2]
        borrow == IF lo < 0 THEN 1 ELSE 0
        hi == a[1] - b[1] - borrow
    IN  <<(hi + 2 * H16) % H16, (lo + H16) % H16>>

u32_raw_mul4(a) ==
    LET lo == a[2] * 4
        hi == a[1] * 4 + (lo \div H16)
    IN  [carry |-> hi \div H16, val |-> <<hi % H16, lo % H16>>]

u32_mul4(a) == u32_raw_mul4(a).val

u32_div16(a) == <<a[1] \div 16, (a[1] % 16) * 4096 + (a[2] \div 16)>>

u32_shl4(a) == <<(a[1] * 16 + (a[2] \div 4096)) % H16, (a[2] * 16) % H16>>

u32_leq(a, b) == a[1] < b[1] \/ (a[1] = b[1] /\ a[2] <= b[2])

u32_geq(a, b) == u32_leq(b, a)

u32_gt(a, b) == ~u32_leq(a, b)

u32_low4(a) == a[2] % 16

u32_clear_low4(a) == <<a[1], a[2] - (a[2] % 16)>>

u32_page_floor(a) == <<a[1], a[2] - (a[2] % PAGE_SIZE)>>


(***************************************************************************)
(* Types                                                                   *)
(***************************************************************************)
DfuTypes == {"DFU_TYPE_SD", "DFU_TYPE_BOOTLOADER", "DFU_TYPE_APP"}

AppId(company, app, version) ==
    [company_id |-> company, app_id |-> app, app_version |-> version]

\* id_t: one slot per member; the code only ever reads the member of the
\* transaction's type, which is the member last written or still zero.
ZeroId == [app |-> AppId(0, 0, 0), bootloader |-> 0, sd |-> 0]

\* transaction_t after memset(0) / static zero initialisation
ZeroTransaction ==
    [transaction_id |-> 0, authority |-> 0, type |-> "DFU_TYPE_NONE",
     p_start_addr |-> NULL, p_bank_addr |-> NULL, length |-> NULL,
     signature_length |-> 0, segments_remaining |-> 0, segment_count |-> 0,
     target_fwid_union |-> ZeroId, ready_mic |-> 0,
     segment_is_valid_after_transfer |-> FALSE]

NoBeacon == [type |-> "NULL", tx |-> FALSE, authority |-> 0,
             transaction_id |-> 0, MIC |-> 0]

NoPacket == [packet_type |-> "NONE"]

NoEvent == [op |-> "reset", relay |-> FALSE, rsp |-> FALSE,
            uecc |-> "not_called", dfu_start |-> "not_called",
            dfu_data |-> "not_called", set_timeout |-> FALSE]

(***************************************************************************)
(* Persistent bootloader info (flash contents found at boot)               *)
(***************************************************************************)
OwnApp == AppId(1, 1, 2)
OwnBootloader == 2
OwnSd == 1

\* bl_info_segment_t entries: start and length of each firmware region
SegmentSd == [start |-> U32(0, 4096), length |-> U32(1, 45056)]
SegmentApp == [start |-> U32(1, 49152), length |-> U32(2, 0)]
SegmentBl == [start |-> U32(3, 49152), length |-> U32(0, 15360)]

InfoConfigs ==
    { [sd_intact |-> si, app_intact |-> ai,
       fwid |-> [app |-> AppId(1, 1, av), bootloader |-> OwnBootloader, sd |-> sv],
       segment_sd |-> SegmentSd, segment_app |-> SegmentApp,
       segment_bl |-> SegmentBl,
       public_key |-> pk, entries |-> en] :
         si \in BOOLEAN, ai \in BOOLEAN,
         av \in {OwnApp.app_version, APP_VERSION_INVALID},
         sv \in {OwnSd, SD_VERSION_INVALID},
         pk \in BOOLEAN,
         en \in {"ok", "no_journal", "no_journal_put_fails", "missing"} }

VARIABLES
    info,            \* bootloader info store (m_bl_info_pointers' targets)
    m_state,
    m_transaction,
    m_req_cache, m_req_index,
    m_tid_cache, m_tid_index,
    mp_beacon,       \* the outgoing beacon and whether it is being transmitted
    timer,           \* RTC state channel: interrupt enabled, armed timeout
    end_reason,      \* reason given to bootloader_abort, "none" while running
    app_start,       \* segment chain-loaded by bootloader_abort
    dfu,             \* flash writer: transfer open, addresses written
    pool_used,       \* transport buffers held through the core
    rx,              \* the packet handled by the last step
    ev,              \* what the last handler did towards its collaborators
    best_offer,      \* history: greatest qualifying READY offer of this request
    seg_ok,          \* history: segments whose DATA write succeeded
    rsp_sent         \* history: DATA_RSP frames queued, per segment

vars == <<info, m_state, m_transaction, m_req_cache, m_req_index,
          m_tid_cache, m_tid_index, mp_beacon, timer, end_reason, app_start,
          dfu, pool_used, rx, ev, best_offer, seg_ok, rsp_sent>>

\* The program state as one record, threaded through the procedures below.
Cur ==
    [info |-> info, m_state |-> m_state, m_transaction |-> m_transaction,
     m_req_cache |-> m_req_cache, m_req_index |-> m_req_index,
     m_tid_cache |-> m_tid_cache, m_tid_index |-> m_tid_index,
     mp_beacon |-> mp_beacon, timer |-> timer, end_reason |-> end_reason,
     app_start |-> app_start, dfu |-> dfu, pool_used |-> pool_used,
     ev |-> ev]

Commit(s) ==
    /\ info' = s.info
    /\ m_state' = s.m_state
    /\ m_transaction' = s.m_transaction
    /\ m_req_cache' = s.m_req_cache
    /\ m_req_index' = s.m_req_index
    /\ m_tid_cache' = s.m_tid_cache
    /\ m_tid_index' = s.m_tid_index
    /\ mp_beacon' = s.mp_beacon
    /\ timer' = s.timer
    /\ end_reason' = s.end_reason
    /\ app_start' = s.app_start
    /\ dfu' = s.dfu
    /\ pool_used' = s.pool_used
    /\ ev' = s.ev

\* bootloader_util_app_start never returns: whatever follows a call of
\* bootloader_abort in the source does not execute.
Halted(s) == s.end_reason # "none"

(***************************************************************************)
(* Collaborators outside the core                                          *)
(***************************************************************************)
\* mesh_packet_acquire: a buffer is there unless the pool is used up
mesh_packet_acquire(s) == s.pool_used < PoolSize

\* The flash writer: whether a transfer is open, the range it was opened
\* for, and the addresses written since.
NoTransfer == [open |-> FALSE, start |-> NULL, length |-> NULL, written |-> {}]

\* dfu_start: the flash writer opens a transfer, or refuses
dfu_start(s, ok) ==
    IF ok THEN [s EXCEPT !.dfu = [open |-> TRUE,
                                  start |-> s.m_transaction.p_start_addr,
                                  length |-> s.m_transaction.length,
                                  written |-> {}],
                         !.ev.dfu_start = "ok"]
    ELSE [s EXCEPT !.ev.dfu_start = "fail"]

\* dfu_data: a write succeeds on the first write of an address of the open
\* transfer and fails on a duplicate or outside the transfer
dfu_data_ok(s, addr) ==
    /\ s.dfu.open
    /\ u32_geq(addr, s.dfu.start)
    /\ u32_gt(u32_add(s.dfu.start, s.dfu.length), addr)
    /\ addr \notin s.dfu.written

dfu_data(s, addr) ==
    IF dfu_data_ok(s, addr)
    THEN [s EXCEPT !.dfu.written = @ \cup {addr}, !.ev.dfu_data = "ok"]
    ELSE [s EXCEPT !.ev.dfu_data = "fail"]

dfu_end(s) == [s EXCEPT !.dfu.open = FALSE]

dfu_has_entry(s, addr) == addr \in s.dfu.written

(***************************************************************************)
(* set_timeout, bootloader_abort                                           *)
(***************************************************************************)
\* faulty variant: the compare value is set, the interrupt is not enabled
set_timeout_masked(s, time) ==
    [s EXCEPT !.timer.timeout = time, !.ev.set_timeout = TRUE]

set_timeout(s, time) ==
    [s EXCEPT !.timer = [armed |-> TRUE, timeout |-> time],
              !.ev.set_timeout = TRUE]

timer_disable(s) == [s EXCEPT !.timer.armed = FALSE]

bootloader_abort(s, end) ==
    [s EXCEPT !.end_reason = end,
              !.app_start = IF end = "BL_END_ERROR_UNAUTHORIZED"
                            THEN "segment_bl" ELSE "segment_app"]

(***************************************************************************)
(* signature_check                                                         *)
(***************************************************************************)
\* the decision, given what uECC_verify answers when it is asked
\* faulty variant: an unsigned transfer is not turned away
signature_check_skips_unsigned(s, verify) ==
    IF ~s.info.public_key THEN TRUE ELSE verify

signature_check(s, verify) ==
    IF ~s.info.public_key THEN TRUE
    ELSE IF s.m_transaction.signature_length = 0 THEN FALSE
    ELSE verify

\* whether signature_check gets as far as uECC_verify
signature_check_verifies(s) ==
    s.info.public_key /\ s.m_transaction.signature_length # 0

(***************************************************************************)
(* ready_packet_matches_our_req                                            *)
(***************************************************************************)
InCache(cache, v) == \E i \in DOMAIN cache : cache[i] = v

\* faulty variant: the transaction id cache is not consulted
ready_packet_matches_ignoring_cache(s, p) ==
    IF p.dfu_type # s.m_transaction.type THEN FALSE
    ELSE CASE s.m_transaction.type = "DFU_TYPE_APP" ->
                  p.id = s.m_transaction.target_fwid_union.app
           [] s.m_transaction.type = "DFU_TYPE_BOOTLOADER" ->
                  p.id = s.m_transaction.target_fwid_union.bootloader
           [] s.m_transaction.type = "DFU_TYPE_SD" ->
                  p.id = s.m_transaction.target_fwid_union.sd
           [] OTHER -> FALSE

ready_packet_matches_our_req(s, p) ==
    IF p.dfu_type # s.m_transaction.type THEN FALSE
    ELSE IF InCache(s.m_tid_cache, p.transaction_id) THEN FALSE
    ELSE CASE s.m_transaction.type = "DFU_TYPE_APP" ->
                  p.id = s.m_transaction.target_fwid_union.app
           [] s.m_transaction.type = "DFU_TYPE_BOOTLOADER" ->
                  p.id = s.m_transaction.target_fwid_union.bootloader
           [] s.m_transaction.type = "DFU_TYPE_SD" ->
                  p.id = s.m_transaction.target_fwid_union.sd
           [] OTHER -> FALSE

(***************************************************************************)
(* beacon_set                                                              *)
(***************************************************************************)
beacon_set(s, type) ==
    IF Halted(s) THEN s
    ELSE
    LET released == IF s.mp_beacon.type # "NULL"
                    THEN [s EXCEPT !.pool_used = @ - 1]
                    ELSE s
    IN  IF ~mesh_packet_acquire(released)
        THEN bootloader_abort([released EXCEPT !.mp_beacon = NoBeacon],
                              "BL_END_ERROR_NO_MEM")
        ELSE [released EXCEPT
                !.pool_used = @ + 1,
                !.mp_beacon =
                    IF type = "BEACON_TYPE_FWID"
                    THEN [type |-> type, tx |-> TRUE, authority |-> 0,
                          transaction_id |-> 0, MIC |-> 0]
                    ELSE IF type \in {"BEACON_TYPE_DFU_REQ_APP",
                                      "BEACON_TYPE_DFU_REQ_SD",
                                      "BEACON_TYPE_DFU_REQ_BL"}
                    THEN [type |-> type, tx |-> TRUE,
                          authority |-> s.m_transaction.authority,
                          transaction_id |-> 0, MIC |-> 0]
                    ELSE [type |-> type, tx |-> TRUE,
                          authority |-> s.m_transaction.authority,
                          transaction_id |-> s.m_transaction.transaction_id,
                          MIC |-> s.m_transaction.ready_mic]]

transport_tx_abort(s) ==
    IF Halted(s) THEN s ELSE [s EXCEPT !.mp_beacon.tx = FALSE]

(***************************************************************************)
(* addr_from_seg, app_is_newer, bootloader_is_newer                        *)
(***************************************************************************)
addr_from_seg(s, segment) ==
    IF segment = 1 THEN s.m_transaction.p_start_addr
    ELSE u32_add(u32_shl4(u32_sub(U32(0, segment), U32(0, 1))),
                 u32_clear_low4(s.m_transaction.p_start_addr))

\* SEGMENT_ADDR(segment, start): the macro form of addr_from_seg
SEGMENT_ADDR(s, segment) == addr_from_seg(s, segment)

\* faulty variant: the company id is not compared
app_is_newer_any_company(s, app) ==
    /\ app.app_id = s.info.fwid.app.app_id
    /\ app.app_version > s.info.fwid.app.app_version

app_is_newer(s, app) ==
    /\ app.app_id = s.info.fwid.app.app_id
    /\ app.company_id = s.info.fwid.app.company_id
    /\ app.app_version > s.info.fwid.app.app_version

bootloader_is_newer(s, bl_id) == bl_id > s.info.fwid.bootloader

(***************************************************************************)
(* State machine entry points                                              *)
(***************************************************************************)
start_find_fwid(s) ==
    IF Halted(s) THEN s
    ELSE LET b == beacon_set(s, "BEACON_TYPE_FWID")
         IN  IF Halted(b) THEN b
             ELSE [set_timeout(b, "STATE_TIMEOUT_FIND_FWID") EXCEPT
                     !.m_state = "BL_STATE_FIND_FWID",
                     !.m_transaction = ZeroTransaction]

ReqBeacon(type) ==
    CASE type = "DFU_TYPE_APP" -> "BEACON_TYPE_DFU_REQ_APP"
      [] type = "DFU_TYPE_SD" -> "BEACON_TYPE_DFU_REQ_SD"
      [] type = "DFU_TYPE_BOOTLOADER" -> "BEACON_TYPE_DFU_REQ_BL"

start_req(s, type) ==
    IF Halted(s) THEN s
    ELSE
    LET t == [s.m_transaction EXCEPT
                !.authority = 0, !.length = NULL, !.p_bank_addr = NULL,
                !.p_start_addr = NULL, !.ready_mic = 0,
                !.segments_remaining = UINT16_MAX, !.segment_count = 0,
                !.segment_is_valid_after_transfer = FALSE,
                !.signature_length = 0, !.transaction_id = 0,
                !.type = type]
        r == [set_timeout(s, "STATE_TIMEOUT_REQ") EXCEPT
                !.m_transaction = t, !.m_state = "BL_STATE_DFU_REQ"]
    IN  IF type \in DfuTypes THEN beacon_set(r, ReqBeacon(type)) ELSE r

ReadyBeacon(type) ==
    CASE type = "DFU_TYPE_APP" -> "BEACON_TYPE_READY_APP"
      [] type = "DFU_TYPE_SD" -> "BEACON_TYPE_READY_SD"
      [] type = "DFU_TYPE_BOOTLOADER" -> "BEACON_TYPE_READY_BL"

start_ready(s, p) ==
    IF Halted(s) THEN s
    ELSE
    LET t == [s.m_transaction EXCEPT
                !.transaction_id = p.transaction_id,
                !.authority = p.authority,
                !.ready_mic = p.MIC]
        r == [set_timeout(s, "STATE_TIMEOUT_READY") EXCEPT
                !.m_transaction = t, !.m_state = "BL_STATE_DFU_READY"]
    IN  IF t.type \in DfuTypes THEN beacon_set(r, ReadyBeacon(t.type)) ELSE r

start_target(s, dfu_start_ok) ==
    IF Halted(s) THEN s
    ELSE
    LET a == [set_timeout(s, "STATE_TIMEOUT_TARGET") EXCEPT
                !.m_state = "BL_STATE_DFU_TARGET"]
        b == dfu_start(a, dfu_start_ok)
        c == IF ~dfu_start_ok THEN start_req(b, b.m_transaction.type) ELSE b
    IN  transport_tx_abort(c)

start_rampdown(s) ==
    IF Halted(s) THEN s
    ELSE [set_timeout(s, "STATE_TIMEOUT_RAMPDOWN") EXCEPT
            !.m_state = "BL_STATE_RAMPDOWN"]

(***************************************************************************)
(* handle_data_packet                                                      *)
(***************************************************************************)
\* segment_count of a start packet, as the uint32_t expression computes it
start_segment_count(start_address, length) ==
    LET sum == u32_add(u32_mul4(length), U32(0, u32_low4(start_address)))
        cnt == u32_add(u32_div16(u32_sub(sum, U32(0, 1))), U32(0, 1))
    IN  IF u32_gt(cnt, U32(0, UINT16_MAX)) THEN UINT16_MAX ELSE cnt[2]

\* p_bank_addr of a start packet for a transaction of the given type
start_bank_addr(s, type, start_address, length_bytes) ==
    IF type = "DFU_TYPE_BOOTLOADER"
    THEN u32_sub(u32_sub(u32_add(s.info.segment_app.start,
                                 s.info.segment_app.length),
                         u32_page_floor(length_bytes)),
                 U32(0, PAGE_SIZE))
    ELSE start_address

SegmentOf(s, type) ==
    CASE type = "DFU_TYPE_APP" -> s.info.segment_app
      [] type = "DFU_TYPE_SD" -> s.info.segment_sd
      [] type = "DFU_TYPE_BOOTLOADER" -> s.info.segment_bl

\* the range test guarding start_target
start_range_ok(p_segment, p_start_addr, length) ==
    /\ u32_geq(p_start_addr, p_segment.start)
    /\ u32_leq(u32_add(p_start_addr, length),
               u32_add(p_segment.start, p_segment.length))

\* DFU_READY, segment 0: the transaction is filled in, then the range tested
data_ready_start(s, p, dfu_start_ok) ==
    LET cnt == start_segment_count(p.start_address, p.length)
        len == u32_mul4(p.length)
        t == [s.m_transaction EXCEPT
                !.segments_remaining = cnt,
                !.segment_count = cnt,
                !.p_start_addr = p.start_address,
                !.length = len,
                !.signature_length = p.signature_length,
                !.segment_is_valid_after_transfer = p.last,
                !.p_bank_addr = start_bank_addr(s, s.m_transaction.type,
                                                p.start_address, len)]
        filled == [s EXCEPT !.m_transaction = t]
    IN  IF start_range_ok(SegmentOf(s, t.type), t.p_start_addr, t.length)
        THEN [st |-> start_target(filled, dfu_start_ok), do_relay |-> TRUE]
        ELSE [st |-> filled, do_relay |-> FALSE]

\* DFU_READY, segment # 0: the start packet was missed
data_ready_missed(s) ==
    LET slot == (s.m_tid_index % TRANSACTION_ID_CACHE_SIZE) + 1
        a == [s EXCEPT
                !.m_tid_cache[slot] = s.m_transaction.transaction_id,
                !.m_tid_index = (@ + 1) % 256]
    IN  [st |-> start_req(a, a.m_transaction.type), do_relay |-> FALSE]

\* faulty variant: a segment is counted whether or not its write succeeded
data_target_segment_counts_failed(s, p) ==
    IF p.segment = 0 THEN [st |-> s, do_relay |-> FALSE]
    ELSE IF p.segment <= s.m_transaction.segment_count
    THEN [st |-> [dfu_data(s, addr_from_seg(s, p.segment)) EXCEPT
                    !.m_transaction.segments_remaining =
                        (@ + UINT16_MAX) % (UINT16_MAX + 1)],
          do_relay |-> TRUE]
    ELSE [st |-> s, do_relay |-> FALSE]

\* DFU_TARGET: the segment is written and counted
data_target_segment(s, p) ==
    IF p.segment = 0 THEN [st |-> s, do_relay |-> FALSE]
    ELSE IF p.segment <= s.m_transaction.segment_count
    THEN LET addr == addr_from_seg(s, p.segment)
         IN  IF dfu_data_ok(s, addr)
             THEN [st |-> [dfu_data(s, addr) EXCEPT
                             !.m_transaction.segments_remaining =
                                 (@ + UINT16_MAX) % (UINT16_MAX + 1)],
                   do_relay |-> TRUE]
             ELSE [st |-> dfu_data(s, addr), do_relay |-> FALSE]
    ELSE [st |-> s, do_relay |-> FALSE]

\* faulty variant: the DFU is ended without the signature being checked
data_target_end_unchecked(s, verify) ==
    IF s.m_transaction.segments_remaining = 0
    THEN start_rampdown(dfu_end(s))
    ELSE s

\* DFU_TARGET: ending the DFU once no segment remains
data_target_end(s, verify) ==
    IF s.m_transaction.segments_remaining = 0
    THEN LET e == [dfu_end(s) EXCEPT
                     !.ev.uecc = IF signature_check_verifies(s)
                                 THEN (IF verify THEN "pass" ELSE "fail")
                                 ELSE "not_called"]
         IN  IF signature_check(e, verify)
             THEN start_rampdown(e)
             ELSE bootloader_abort(e, "BL_END_ERROR_UNAUTHORIZED")
    ELSE s

\* the relay at the end of handle_data_packet
data_relay(r) ==
    IF r.do_relay /\ ~Halted(r.st)
    THEN [r.st EXCEPT !.ev.relay = TRUE]
    ELSE r.st

handle_data_packet(s, p, dfu_start_ok, verify) ==
    IF p.transaction_id = s.m_transaction.transaction_id
    THEN IF s.m_state = "BL_STATE_DFU_READY"
         THEN IF p.segment = 0
              THEN data_relay(data_ready_start(s, p, dfu_start_ok))
              ELSE data_relay(data_ready_missed(s))
         ELSE IF s.m_state = "BL_STATE_DFU_TARGET"
         THEN LET w == data_target_segment(s, p)
              IN  data_relay([st |-> data_target_end(w.st, verify),
                              do_relay |-> w.do_relay])
         ELSE s
    ELSE s

(***************************************************************************)
(* handle_state_packet                                                     *)
(***************************************************************************)
\* faulty variant: no tie-break on the transaction id
state_ready_overwrite_authority_only(s, p) ==
    IF p.authority > s.m_transaction.authority
    THEN [s EXCEPT !.m_transaction.authority = p.authority,
                   !.m_transaction.transaction_id = p.transaction_id]
    ELSE s

state_ready_overwrite(s, p) ==
    IF p.authority > s.m_transaction.authority
    THEN [s EXCEPT !.m_transaction.authority = p.authority,
                   !.m_transaction.transaction_id = p.transaction_id]
    ELSE IF /\ p.authority = s.m_transaction.authority
            /\ p.transaction_id > s.m_transaction.transaction_id
    THEN [s EXCEPT !.m_transaction.authority = p.authority,
                   !.m_transaction.transaction_id = p.transaction_id]
    ELSE s

handle_state_packet(s, p) ==
    IF s.m_state = "BL_STATE_DFU_REQ"
    THEN IF p.authority > 0 /\ ready_packet_matches_our_req(s, p)
         THEN start_ready(s, p)
         ELSE s
    ELSE IF s.m_state = "BL_STATE_DFU_READY"
    THEN IF ready_packet_matches_our_req(s, p)
         THEN state_ready_overwrite(s, p)
         ELSE s
    ELSE s

(***************************************************************************)
(* handle_fwid_packet                                                      *)
(***************************************************************************)
handle_fwid_packet(s, p) ==
    IF s.m_state = "BL_STATE_FIND_FWID"
    THEN IF bootloader_is_newer(s, p.bootloader)
         THEN start_req([timer_disable(s) EXCEPT
                           !.m_transaction.target_fwid_union.bootloader =
                               p.bootloader],
                        "DFU_TYPE_BOOTLOADER")
         ELSE IF app_is_newer(s, p.app)
         THEN IF p.sd # s.info.fwid.sd
              THEN start_req([timer_disable(s) EXCEPT
                                !.m_transaction.target_fwid_union.sd = p.sd],
                             "DFU_TYPE_SD")
              ELSE start_req([timer_disable(s) EXCEPT
                                !.m_transaction.target_fwid_union.app = p.app],
                             "DFU_TYPE_APP")
         ELSE s
    ELSE s

(***************************************************************************)
(* handle_data_req_packet, handle_data_rsp_packet                          *)
(***************************************************************************)
handle_data_req_packet(s, p) ==
    IF p.transaction_id = s.m_transaction.transaction_id
    THEN IF mesh_packet_acquire(s)
         THEN LET a == [s EXCEPT !.pool_used = @ + 1]
              IN  IF InCache(a.m_req_cache, p.segment)
                  THEN a   \* returns with p_rsp still held
                  ELSE LET served == dfu_has_entry(a, SEGMENT_ADDR(a, p.segment))
                           slot == (a.m_req_index % REQ_CACHE_SIZE) + 1
                       IN  [a EXCEPT
                              !.ev.rsp = served,
                              !.pool_used = @ - 1,
                              !.m_req_cache[slot] = p.segment,
                              !.m_req_index = (@ + 1) % 256]
         ELSE s
    ELSE s

handle_data_rsp_packet(s, p) ==
    IF p.transaction_id = s.m_transaction.transaction_id
    THEN dfu_data(s, SEGMENT_ADDR(s, p.segment))
    ELSE s

(***************************************************************************)
(* bootloader_init, bootloader_rtc_irq_handler                             *)
(***************************************************************************)
\* memset(cache, 0, n): n bytes, so the first n \div width elements
memset_bytes(cache, width, n) ==
    [i \in DOMAIN cache |-> IF i <= n \div width THEN 0 ELSE cache[i]]

\* faulty variant: the application is looked at before the SoftDevice
bootloader_init_app_first(s) ==
    LET z == [s EXCEPT !.mp_beacon = NoBeacon,
                       !.m_state = "BL_STATE_FIND_FWID",
                       !.m_transaction.transaction_id = 0,
                       !.m_req_cache = memset_bytes(@, 2, REQ_CACHE_SIZE),
                       !.m_tid_cache = memset_bytes(@, 4, TRANSACTION_ID_CACHE_SIZE),
                       !.m_tid_index = 0, !.m_req_index = 0]
    IN  IF z.info.entries \in {"missing", "no_journal_put_fails"}
        THEN bootloader_abort(z, "BL_END_ERROR_INVALID_PERSISTANT_STORAGE")
        ELSE
        LET j == [z EXCEPT !.info.entries = "ok"]
        IN  IF \/ ~j.info.app_intact
               \/ j.info.fwid.app.app_version = APP_VERSION_INVALID
            THEN start_req(j, "DFU_TYPE_APP")
            ELSE IF ~j.info.sd_intact \/ j.info.fwid.sd = SD_VERSION_INVALID
            THEN start_req(j, "DFU_TYPE_SD")
            ELSE start_find_fwid(j)

bootloader_init(s) ==
    LET z == [s EXCEPT !.mp_beacon = NoBeacon,
                       !.m_state = "BL_STATE_FIND_FWID",
                       !.m_transaction.transaction_id = 0,
                       !.m_req_cache = memset_bytes(@, 2, REQ_CACHE_SIZE),
                       !.m_tid_cache = memset_bytes(@, 4, TRANSACTION_ID_CACHE_SIZE),
                       !.m_tid_index = 0, !.m_req_index = 0]
    IN  IF z.info.entries = "missing"
        THEN bootloader_abort(z, "BL_END_ERROR_INVALID_PERSISTANT_STORAGE")
        ELSE IF z.info.entries = "no_journal_put_fails"
        THEN bootloader_abort(z, "BL_END_ERROR_INVALID_PERSISTANT_STORAGE")
        ELSE
        LET j == [z EXCEPT !.info.entries = "ok"]
        IN  IF ~j.info.sd_intact \/ j.info.fwid.sd = SD_VERSION_INVALID
            THEN start_req(j, "DFU_TYPE_SD")
            ELSE IF \/ ~j.info.app_intact
                    \/ j.info.fwid.app.app_version = APP_VERSION_INVALID
            THEN start_req(j, "DFU_TYPE_APP")
            ELSE start_find_fwid(j)

\* faulty variant: a timeout in DFU_TARGET gives up like one in DFU_REQ
bootloader_rtc_irq_handler_gives_up(s) ==
    LET d == timer_disable(s)
    IN  CASE d.m_state = "BL_STATE_FIND_FWID" ->
                 bootloader_abort(d, "BL_END_FWID_VALID")
          [] d.m_state \in {"BL_STATE_DFU_REQ", "BL_STATE_DFU_READY",
                            "BL_STATE_DFU_TARGET"} ->
                 bootloader_abort(d, "BL_END_ERROR_NO_START")
          [] d.m_state = "BL_STATE_RAMPDOWN" ->
                 bootloader_abort(d, "BL_END_SUCCESS")
          [] OTHER -> d

bootloader_rtc_irq_handler(s) ==
    LET d == timer_disable(s)
    IN  CASE d.m_state = "BL_STATE_FIND_FWID" ->
                 bootloader_abort(d, "BL_END_FWID_VALID")
          [] d.m_state \in {"BL_STATE_DFU_REQ", "BL_STATE_DFU_READY"} ->
                 bootloader_abort(d, "BL_END_ERROR_NO_START")
          [] d.m_state = "BL_STATE_DFU_TARGET" ->
                 start_req(d, d.m_transaction.type)
          [] d.m_state = "BL_STATE_RAMPDOWN" ->
                 bootloader_abort(d, "BL_END_SUCCESS")
          [] OTHER -> d

(***************************************************************************)
(* Packets the transport may deliver                                       *)
(***************************************************************************)
Tids == 0 .. MaxTid
Segments == 0 .. MaxSeg

FwidPacket(a, b, v) ==
    [packet_type |-> "DFU_PACKET_TYPE_FWID", app |-> a, bootloader |-> b, sd |-> v]

StatePacket(ty, au, tid, mic, id) ==
    [packet_type |-> "DFU_PACKET_TYPE_STATE", dfu_type |-> ty,
     authority |-> au, transaction_id |-> tid, MIC |-> mic, id |-> id]

\* start metadata sp: <<start_address, length in words, signature_length, last>>
StartPacket(tid, sp) ==
    [packet_type |-> "DFU_PACKET_TYPE_DATA", transaction_id |-> tid,
     segment |-> 0, start_address |-> sp[1], length |-> sp[2],
     signature_length |-> sp[3], last |-> sp[4]]

DataPacket(tid, seg) ==
    [packet_type |-> "DFU_PACKET_TYPE_DATA", transaction_id |-> tid,
     segment |-> seg]

DataReqPacket(tid, seg) ==
    [packet_type |-> "DFU_PACKET_TYPE_DATA_REQ", transaction_id |-> tid,
     segment |-> seg]

DataRspPacket(tid, seg) ==
    [packet_type |-> "DFU_PACKET_TYPE_DATA_RSP", transaction_id |-> tid,
     segment |-> seg]

\* the id member a READY of the given type carries: the target a node of
\* that type asks for after boot (zero) or after an FWID beacon, or another
ReadyIds(type) ==
    CASE type = "DFU_TYPE_APP" -> {AppId(0, 0, 0), AppId(1, 1, 3)}
      [] type = "DFU_TYPE_SD" -> {0, OwnSd + 1}
      [] type = "DFU_TYPE_BOOTLOADER" -> {OwnBootloader + 1, OwnBootloader + 2}

(***************************************************************************)
(* History kept beside the program state                                   *)
(***************************************************************************)
LexGreater(a, b) == a[1] > b[1] \/ (a[1] = b[1] /\ a[2] > b[2])

TargetOf(t) ==
    CASE t.type = "DFU_TYPE_APP" -> t.target_fwid_union.app
      [] t.type = "DFU_TYPE_SD" -> t.target_fwid_union.sd
      [] t.type = "DFU_TYPE_BOOTLOADER" -> t.target_fwid_union.bootloader
      [] OTHER -> "no target"

\* a READY offer that counts for the request being made
OfferQualifies(p) ==
    /\ m_state \in {"BL_STATE_DFU_REQ", "BL_STATE_DFU_READY"}
    /\ p.authority > 0
    /\ p.dfu_type = m_transaction.type
    /\ p.id = TargetOf(m_transaction)
    /\ \A i \in DOMAIN m_tid_cache : m_tid_cache[i] # p.transaction_id

\* its kind, whether it carries the id of the transaction in progress, and
\* whether it is a start packet
Brief(p) ==
    [packet_type |-> p.packet_type,
     current |-> /\ p.packet_type \in {"DFU_PACKET_TYPE_DATA",
                                       "DFU_PACKET_TYPE_DATA_REQ",
                                       "DFU_PACKET_TYPE_DATA_RSP"}
                 /\ p.transaction_id = m_transaction.transaction_id,
     start |-> p.packet_type = "DFU_PACKET_TYPE_DATA" /\ p.segment = 0]

\* what a step keeps of the packet it handled: all of it, or its kind
Seen(p, how) == IF how = "whole" THEN p ELSE Brief(p)

Event(op) == [NoEvent EXCEPT !.op = op]

\* DATA_RSP frames queued for each segment of the current transaction,
\* counted up to 3
NoServes == [seg \in 1 .. MaxReqSeg |-> 0]

ServedAfter(n, p) ==
    IF n.m_transaction.transaction_id # m_transaction.transaction_id
    THEN NoServes
    ELSE IF n.ev.rsp /\ p.segment \in DOMAIN rsp_sent
    THEN [rsp_sent EXCEPT ![p.segment] = IF @ < 3 THEN @ + 1 ELSE @]
    ELSE rsp_sent

Booted == ev.op # "reset"

Running == Booted /\ end_reason = "none"

(***************************************************************************)
(* Actions: one per entry point of the core.  Each takes the set of        *)
(* packets the transport may deliver to it.                                *)
(***************************************************************************)
InitWith(configs) ==
    /\ info \in configs
    /\ m_state = "BL_STATE_FIND_FWID"
    /\ m_transaction = ZeroTransaction
    /\ m_req_cache = [i \in 1 .. REQ_CACHE_SIZE |-> 0]
    /\ m_req_index = 0
    /\ m_tid_cache = [i \in 1 .. TRANSACTION_ID_CACHE_SIZE |-> 0]
    /\ m_tid_index = 0
    /\ mp_beacon = NoBeacon
    /\ timer = [armed |-> FALSE, timeout |-> "none"]
    /\ end_reason = "none"
    /\ app_start = "none"
    /\ dfu = NoTransfer
    /\ pool_used = 0
    /\ rx = NoPacket
    /\ ev = NoEvent
    /\ best_offer = <<0, 0>>
    /\ seg_ok = {}
    /\ rsp_sent = NoServes

BootloaderInit ==
    /\ ~Booted
    /\ Commit(bootloader_init([Cur EXCEPT !.ev = Event("init")]))
    /\ rx' = NoPacket
    /\ UNCHANGED <<best_offer, seg_ok, rsp_sent>>

RxFwid(packets, how) ==
    /\ Running
    /\ \E p \in packets :
         /\ Commit(handle_fwid_packet([Cur EXCEPT !.ev = Event("rx")], p))
         /\ rx' = Seen(p, how)
    /\ UNCHANGED <<best_offer, seg_ok, rsp_sent>>

RxState(packets, how) ==
    /\ Running
    /\ \E p \in packets :
         /\ Commit(handle_state_packet([Cur EXCEPT !.ev = Event("rx")], p))
         /\ rx' = Seen(p, how)
         /\ best_offer' = IF OfferQualifies(p)
                             /\ LexGreater(<<p.authority, p.transaction_id>>,
                                           best_offer)
                          THEN <<p.authority, p.transaction_id>>
                          ELSE best_offer
         /\ rsp_sent' = IF m_transaction'.transaction_id =
                              m_transaction.transaction_id
                        THEN rsp_sent ELSE NoServes
    /\ UNCHANGED seg_ok

\* what dfu_start and uECC_verify may answer, where the handler asks them
StartAnswers(p) ==
    IF /\ m_state = "BL_STATE_DFU_READY" /\ p.segment = 0
       /\ p.transaction_id = m_transaction.transaction_id
    THEN BOOLEAN ELSE {TRUE}

VerifyAnswers(p) ==
    IF /\ m_state = "BL_STATE_DFU_TARGET"
       /\ p.transaction_id = m_transaction.transaction_id
       /\ m_transaction.segments_remaining <= 1
       /\ signature_check_verifies(Cur)
    THEN BOOLEAN ELSE {TRUE}

RxData(packets, how) ==
    /\ Running
    /\ \E p \in packets :
       \E dfu_start_ok \in StartAnswers(p), verify \in VerifyAnswers(p) :
         LET n == handle_data_packet([Cur EXCEPT !.ev = Event("rx")], p,
                                     dfu_start_ok, verify)
         IN  /\ Commit(n)
             /\ rx' = Seen(p, how)
             /\ best_offer' = IF n.m_state = "BL_STATE_DFU_READY"
                              THEN best_offer ELSE <<0, 0>>
             /\ seg_ok' = IF n.m_state = "BL_STATE_DFU_TARGET"
                          THEN (IF m_state # "BL_STATE_DFU_TARGET" THEN {}
                                ELSE IF n.ev.dfu_data = "ok"
                                THEN seg_ok \cup {p.segment} ELSE seg_ok)
                          ELSE {}
             /\ rsp_sent' = IF n.m_transaction.transaction_id =
                                  m_transaction.transaction_id
                            THEN rsp_sent ELSE NoServes

RxDataReq(packets, how) ==
    /\ Running
    /\ \E p \in packets :
         LET n == handle_data_req_packet([Cur EXCEPT !.ev = Event("rx")], p)
         IN  /\ Commit(n)
             /\ rx' = Seen(p, how)
             /\ rsp_sent' = ServedAfter(n, p)
    /\ UNCHANGED <<best_offer, seg_ok>>

RxDataRsp(packets, how) ==
    /\ Running
    /\ \E p \in packets :
         /\ Commit(handle_data_rsp_packet([Cur EXCEPT !.ev = Event("rx")], p))
         /\ rx' = Seen(p, how)
    /\ UNCHANGED <<best_offer, seg_ok, rsp_sent>>

RtcIrq ==
    /\ Running
    /\ timer.armed
    /\ Commit(bootloader_rtc_irq_handler([Cur EXCEPT !.ev = Event("rtc")]))
    /\ rx' = NoPacket
    /\ best_offer' = IF m_state = "BL_STATE_DFU_READY"
                     THEN best_offer ELSE <<0, 0>>
    /\ seg_ok' = {}
    /\ rsp_sent' = IF m_transaction'.transaction_id =
                         m_transaction.transaction_id
                   THEN rsp_sent ELSE NoServes

(***************************************************************************)
(* Spec: whole life cycles.  Boot with intact or damaged images, FWID      *)
(* beacons for each kind of upgrade, one READY offer per target, start     *)
(* packets that fit and that do not, segments by DATA and by DATA_RSP.     *)
(***************************************************************************)
MainConfigs ==
    { c \in InfoConfigs :
        /\ c.entries = "ok"
        /\ c.fwid.sd = OwnSd /\ c.fwid.app = OwnApp
        /\ (c.sd_intact \/ c.app_intact) }

MainFwid ==
    { FwidPacket(OwnApp, OwnBootloader + 1, OwnSd),
      FwidPacket(AppId(1, 1, 3), OwnBootloader, OwnSd + 1),
      FwidPacket(AppId(1, 1, 3), OwnBootloader, OwnSd),
      FwidPacket(OwnApp, OwnBootloader, OwnSd + 1) }

MainState ==
    UNION { { StatePacket(ty, 1, 1, 1, id) : id \in ReadyIds(ty) } :
            ty \in DfuTypes }

MainStart ==
    { <<U32(1, 49152), U32(0, 8), 0, TRUE>>,         \* 0x1C000, 32 bytes
      <<U32(1, 49156), U32(0, 3), 64, TRUE>>,        \* 0x1C004, 12 bytes, signed
      <<U32(0, 4096), U32(0, 5), 64, TRUE>>,         \* 0x01000, 20 bytes, signed
      <<U32(1, 49152), U32(0, 32769), 0, FALSE>> }   \* 0x1C000, 0x20004 bytes

MainData ==
    { StartPacket(tid, sp) : tid \in {0, 1}, sp \in MainStart }
    \cup { DataPacket(tid, seg) : tid \in {0, 1}, seg \in 1 .. MaxSeg + 1 }

MainDataReq == { DataReqPacket(1, 1) }

MainDataRsp == { DataRspPacket(tid, seg) : tid \in {0, 1}, seg \in 1 .. MaxSeg }

Init == InitWith(MainConfigs)

Next ==
    \/ BootloaderInit
    \/ RxFwid(MainFwid, "brief")
    \/ RxState(MainState, "brief")
    \/ RxData(MainData, "brief")
    \/ RxDataReq(MainDataReq, "brief")
    \/ RxDataRsp(MainDataRsp, "brief")
    \/ RtcIrq

Spec == Init /\ [][Next]_vars

(***************************************************************************)
(* SpecReady: the negotiation.  Competing READY offers of every type,      *)
(* authority and transaction id, for a node that asks after boot or after  *)
(* an FWID beacon; the start packet may be missed or seen.                 *)
(***************************************************************************)
ReadyConfigs == { c \in MainConfigs : ~c.public_key /\ c.app_intact }

ReadyState ==
    UNION { { StatePacket(ty, au, tid, 1, id) :
                au \in 0 .. MaxAuth, tid \in Tids, id \in ReadyIds(ty) } :
            ty \in DfuTypes }

ReadyData ==
    { DataPacket(tid, 1) : tid \in Tids }
    \cup { StartPacket(tid, <<U32(0, 4096), U32(0, 5), 0, TRUE>>) : tid \in Tids }

InitReady == InitWith(ReadyConfigs)

NextReady ==
    \/ BootloaderInit
    \/ RxFwid(MainFwid, "brief")
    \/ RxState(ReadyState, "brief")
    \/ RxData(ReadyData, "brief")
    \/ RxDataReq(MainDataReq, "brief")
    \/ RxDataRsp({DataRspPacket(1, 1)}, "brief")
    \/ RtcIrq

SpecReady == InitReady /\ [][NextReady]_vars

(***************************************************************************)
(* C1: while the node is in DFU_REQ or DFU_READY, the adopted              *)
(* (authority, transaction_id) is the lexicographic maximum of the READY   *)
(* offers received since it entered DFU_REQ that have authority > 0, the   *)
(* request's type and target, and a transaction id outside tid_cache;      *)
(* (0, 0) while there is none.                                             *)
(***************************************************************************)
C1_AdoptedIsLexMax ==
    m_state \in {"BL_STATE_DFU_REQ", "BL_STATE_DFU_READY"} =>
        <<m_transaction.authority, m_transaction.transaction_id>> = best_offer

\* an offer of equal authority and greater transaction id replaced the first
C1_Witness ==
    /\ m_state = "BL_STATE_DFU_READY"
    /\ mp_beacon.authority = m_transaction.authority
    /\ m_transaction.transaction_id > mp_beacon.transaction_id
    /\ best_offer = <<m_transaction.authority, m_transaction.transaction_id>>

(***************************************************************************)
(* C3: when a DATA frame in DFU_TARGET leaves segments_remaining at 0, the *)
(* DFU is ended and the signature decides: without a public key the node   *)
(* goes to RAMPDOWN; with a key and signature_length = 0 it aborts with     *)
(* UNAUTHORIZED; otherwise uECC_verify is asked, and the node goes to       *)
(* RAMPDOWN when it passes and aborts with UNAUTHORIZED when it fails.      *)
(***************************************************************************)
C3_FinalizerStep ==
    /\ m_state = "BL_STATE_DFU_TARGET"
    /\ ev'.op = "rx"
    /\ rx'.packet_type = "DFU_PACKET_TYPE_DATA"
    /\ rx'.current
    /\ m_transaction'.segments_remaining = 0

C3_Accepted ==
    /\ m_state' = "BL_STATE_RAMPDOWN"
    /\ end_reason' = "none"

C3_Rejected ==
    /\ end_reason' = "BL_END_ERROR_UNAUTHORIZED"
    /\ m_state' # "BL_STATE_RAMPDOWN"

C3_SignatureDecides ==
    [][C3_FinalizerStep =>
         IF ~info.public_key
         THEN C3_Accepted /\ ev'.uecc = "not_called"
         ELSE IF m_transaction'.signature_length = 0
         THEN C3_Rejected /\ ev'.uecc = "not_called"
         ELSE \/ ev'.uecc = "pass" /\ C3_Accepted
              \/ ev'.uecc = "fail" /\ C3_Rejected]_vars

\* a signed transfer was verified with the provisioned key and accepted
C3_Witness ==
    /\ m_state = "BL_STATE_RAMPDOWN"
    /\ info.public_key
    /\ m_transaction.signature_length # 0
    /\ ev.uecc = "pass"

(***************************************************************************)
(* C4: the node ends with SUCCESS only by a timer expiry in RAMPDOWN;      *)
(* RAMPDOWN is entered only from DFU_TARGET, by a DATA frame of the        *)
(* current transaction that leaves segments_remaining at 0 with the        *)
(* signature accepted; and no handler returns with the node in DFU_TARGET  *)
(* and segments_remaining = 0.                                             *)
(***************************************************************************)
C4_SignatureAccepted ==
    \/ ~info.public_key
    \/ m_transaction'.signature_length # 0 /\ ev'.uecc = "pass"

C4_SuccessStep ==
    (end_reason' = "BL_END_SUCCESS" /\ end_reason # "BL_END_SUCCESS") =>
        (m_state = "BL_STATE_RAMPDOWN" /\ ev'.op = "rtc")

C4_RampdownStep ==
    (m_state' = "BL_STATE_RAMPDOWN" /\ m_state # "BL_STATE_RAMPDOWN") =>
        /\ m_state = "BL_STATE_DFU_TARGET"
        /\ rx'.packet_type = "DFU_PACKET_TYPE_DATA"
        /\ rx'.current
        /\ m_transaction'.segments_remaining = 0
        /\ C4_SignatureAccepted

C4_NeverLeftFinished ==
    ~ /\ m_state = "BL_STATE_DFU_TARGET"
      /\ end_reason = "none"
      /\ m_transaction.segments_remaining = 0

C4_SuccessOnlyAfterRampdown ==
    /\ []C4_NeverLeftFinished
    /\ [][C4_SuccessStep /\ C4_RampdownStep]_vars

\* a transfer went through RAMPDOWN and ended with SUCCESS
C4_Witness ==
    /\ end_reason = "BL_END_SUCCESS"
    /\ m_state = "BL_STATE_RAMPDOWN"
    /\ m_transaction.segments_remaining = 0

(***************************************************************************)
(* C5: the state timer's expiry ends the node with FWID_VALID in           *)
(* FIND_FWID, with NO_START in DFU_REQ and DFU_READY and with SUCCESS in   *)
(* RAMPDOWN; in DFU_TARGET it puts the node back in DFU_REQ for the same   *)
(* type and target, still running.                                         *)
(***************************************************************************)
C5_TimeoutReaction ==
    [][ev'.op = "rtc" =>
         CASE m_state = "BL_STATE_FIND_FWID" ->
                  end_reason' = "BL_END_FWID_VALID"
           [] m_state \in {"BL_STATE_DFU_REQ", "BL_STATE_DFU_READY"} ->
                  end_reason' = "BL_END_ERROR_NO_START"
           [] m_state = "BL_STATE_DFU_TARGET" ->
                  /\ m_state' = "BL_STATE_DFU_REQ"
                  /\ end_reason' = "none"
                  /\ m_transaction'.type = m_transaction.type
                  /\ m_transaction'.target_fwid_union =
                         m_transaction.target_fwid_union
           [] m_state = "BL_STATE_RAMPDOWN" ->
                  end_reason' = "BL_END_SUCCESS"]_vars

\* the timer ran out in DFU_TARGET and the request was made again
C5_Witness ==
    /\ ev.op = "rtc"
    /\ m_state = "BL_STATE_DFU_REQ"
    /\ end_reason = "none"
    /\ m_transaction.type \in DfuTypes

(***************************************************************************)
(* C6: in DFU_TARGET segments_remaining = segment_count - N, N being the   *)
(* number of distinct segments in 1 .. segment_count that a DATA frame has *)
(* written; a DATA frame whose write fails or is not attempted (segment 0, *)
(* segment above segment_count) leaves segments_remaining as it was.       *)
(***************************************************************************)
C6_Counted ==
    m_state = "BL_STATE_DFU_TARGET" =>
        /\ seg_ok \subseteq 1 .. m_transaction.segment_count
        /\ m_transaction.segments_remaining =
               m_transaction.segment_count - Cardinality(seg_ok)

C6_UncountedStep ==
    ( /\ m_state = "BL_STATE_DFU_TARGET"
      /\ ev'.op = "rx"
      /\ rx'.packet_type = "DFU_PACKET_TYPE_DATA"
      /\ ev'.dfu_data # "ok" ) =>
        m_transaction'.segments_remaining = m_transaction.segments_remaining

C6_RemainingCountsWrites ==
    /\ []C6_Counted
    /\ [][C6_UncountedStep]_vars

\* one of two segments is written, and a frame for it came again and failed
C6_Witness ==
    /\ m_state = "BL_STATE_DFU_TARGET"
    /\ rx.packet_type = "DFU_PACKET_TYPE_DATA"
    /\ ev.dfu_data = "fail"
    /\ Cardinality(seg_ok) = 1
    /\ m_transaction.segments_remaining = m_transaction.segment_count - 1

(***************************************************************************)
(* C7: a DATA frame is relayed exactly when it advanced the node: a start  *)
(* packet after which the node is in DFU_TARGET, or a segment whose write  *)
(* succeeded.                                                              *)
(***************************************************************************)
C7_Advanced ==
    \/ /\ m_state = "BL_STATE_DFU_READY"
       /\ rx'.current /\ rx'.start
       /\ m_state' = "BL_STATE_DFU_TARGET"
    \/ /\ m_state = "BL_STATE_DFU_TARGET"
       /\ ev'.dfu_data = "ok"

C7_RelayedIffAdvanced ==
    [][(ev'.op = "rx" /\ rx'.packet_type = "DFU_PACKET_TYPE_DATA") =>
           (ev'.relay <=> C7_Advanced)]_vars

(***************************************************************************)
(* SpecStart: start packets over the width of uint32_t.  Addresses at the  *)
(* top of the address space, word counts whose byte length passes 2^32,    *)
(* a length of 0, beside start packets that fit their segment and one that *)
(* is too long.  The start packet handled is kept whole.                   *)
(***************************************************************************)
WideStart ==
    { <<U32(1, 49152), U32(0, 8), 0, TRUE>>,          \* 0x0001C000, 8 words
      <<U32(0, 4096), U32(0, 8), 0, TRUE>>,           \* 0x00001000, 8 words
      <<U32(3, 49152), U32(0, 8), 0, TRUE>>,          \* 0x0003C000, 8 words
      <<U32(3, 49152), U32(0, 256), 0, TRUE>>,        \* 0x0003C000, 256 words
      <<U32(1, 49156), U32(0, 3), 0, TRUE>>,          \* 0x0001C004, 3 words
      <<U32(1, 49152), U32(0, 32769), 0, TRUE>>,      \* 0x0001C000, 0x8001 words
      <<U32(1, 49152), U32(0, 0), 0, TRUE>>,          \* 0x0001C000, no words
      <<U32(65535, 65520), U32(0, 8), 0, TRUE>>,      \* 0xFFFFFFF0, 8 words
      <<U32(1, 49152), U32(16384, 4), 0, TRUE>>,      \* 0x0001C000, 0x40000004 words
      <<U32(1, 49167), U32(16383, 65533), 0, TRUE>> } \* 0x0001C00F, 0x3FFFFFFD words

StartData ==
    { StartPacket(1, sp) : sp \in WideStart }
    \cup { DataPacket(1, seg) : seg \in 1 .. MaxSeg }

InitStart == InitWith(ReadyConfigs)

NextStart ==
    \/ BootloaderInit
    \/ RxFwid(MainFwid, "brief")
    \/ RxState(MainState, "brief")
    \/ RxData(StartData, "whole")
    \/ RxDataReq(MainDataReq, "brief")
    \/ RxDataRsp({DataRspPacket(1, 1)}, "brief")
    \/ RtcIrq

SpecStart == InitStart /\ [][NextStart]_vars

\* a start packet of the adopted transaction handled in DFU_READY
StartHandled ==
    /\ m_state = "BL_STATE_DFU_READY"
    /\ ev'.op = "rx"
    /\ rx'.packet_type = "DFU_PACKET_TYPE_DATA"
    /\ rx'.segment = 0
    /\ rx'.transaction_id = m_transaction.transaction_id

(***************************************************************************)
(* C2: a start packet that takes the node from DFU_READY to DFU_TARGET     *)
(* names a byte range [start_address, start_address + 4 * length) that     *)
(* lies inside the segment of the transaction's type, the sums taken       *)
(* without wrap-around.                                                    *)
(***************************************************************************)
C2_Inside(p_segment, start_address, length) ==
    LET bytes == u32_raw_mul4(length)
        top == u32_raw_add(start_address, bytes.val)
        seg_top == u32_raw_add(p_segment.start, p_segment.length)
    IN  /\ u32_geq(start_address, p_segment.start)
        /\ bytes.carry = 0
        /\ top.carry = 0
        /\ seg_top.carry = 0
        /\ u32_leq(top.val, seg_top.val)

C2_AcceptedStartInside ==
    [][(StartHandled /\ m_state' = "BL_STATE_DFU_TARGET") =>
           C2_Inside(SegmentOf(Cur, m_transaction.type),
                     rx'.start_address, rx'.length)]_vars

(***************************************************************************)
(* C8: the segment_count a start packet leaves in the transaction is       *)
(* ceil((length * 4 + start_address mod 16) / 16), at most 0xFFFF, the     *)
(* byte count taken modulo 2^32.                                           *)
(***************************************************************************)
C8_Ceil(start_address, length) ==
    LET x == u32_add(u32_mul4(length), U32(0, u32_low4(start_address)))
        q == u32_add(u32_div16(x), U32(0, IF x[2] % 16 = 0 THEN 0 ELSE 1))
    IN  IF u32_gt(q, U32(0, UINT16_MAX)) THEN UINT16_MAX ELSE q[2]

C8_SegmentCountIsCeil ==
    [][(StartHandled /\ ev'.dfu_start # "fail") =>
           m_transaction'.segment_count =
               C8_Ceil(rx'.start_address, rx'.length)]_vars

(***************************************************************************)
(* SpecFwid: FWID beacons of every kind: older, equal and newer            *)
(* bootloaders, applications of our own and of other companies and app     *)
(* ids, the same and another SoftDevice.  The beacon handled is kept       *)
(* whole.                                                                  *)
(***************************************************************************)
FwidApps ==
    { OwnApp,
      AppId(1, 1, OwnApp.app_version + 1),
      AppId(1, 1, OwnApp.app_version - 1),
      AppId(2, 1, OwnApp.app_version + 1),
      AppId(1, 2, OwnApp.app_version + 1) }

FwidPackets ==
    { FwidPacket(a, b, v) :
        a \in FwidApps,
        b \in {OwnBootloader - 1, OwnBootloader, OwnBootloader + 1},
        v \in {OwnSd, OwnSd + 1} }

InitFwid == InitWith(MainConfigs)

NextFwid ==
    \/ BootloaderInit
    \/ RxFwid(FwidPackets, "whole")
    \/ RxState(MainState, "brief")
    \/ RxData(ReadyData, "brief")
    \/ RxDataReq(MainDataReq, "brief")
    \/ RxDataRsp({DataRspPacket(1, 1)}, "brief")
    \/ RtcIrq

SpecFwid == InitFwid /\ [][NextFwid]_vars

(***************************************************************************)
(* C10: an FWID beacon acts only in FIND_FWID.  There a bootloader version *)
(* above ours starts a bootloader request for that version; failing that,  *)
(* an application of our company and app id with a version above ours      *)
(* starts a SoftDevice request for the advertised SoftDevice when that     *)
(* differs from ours, and an application request for the advertised        *)
(* application when it does not; any other beacon, and any beacon in       *)
(* another state, leaves the node as it was.                               *)
(***************************************************************************)
C10_AppNewer ==
    /\ rx'.app.company_id = info.fwid.app.company_id
    /\ rx'.app.app_id = info.fwid.app.app_id
    /\ rx'.app.app_version > info.fwid.app.app_version

C10_Requested(type) ==
    /\ m_state' = "BL_STATE_DFU_REQ"
    /\ end_reason' = "none"
    /\ m_transaction'.type = type

C10_Untouched ==
    UNCHANGED <<info, m_state, m_transaction, m_req_cache, m_req_index,
                m_tid_cache, m_tid_index, mp_beacon, timer, end_reason,
                app_start, dfu, pool_used>>

C10_FwidPriority ==
    [][(ev'.op = "rx" /\ rx'.packet_type = "DFU_PACKET_TYPE_FWID") =>
         IF m_state # "BL_STATE_FIND_FWID" THEN C10_Untouched
         ELSE IF rx'.bootloader > info.fwid.bootloader
         THEN /\ C10_Requested("DFU_TYPE_BOOTLOADER")
              /\ m_transaction'.target_fwid_union.bootloader = rx'.bootloader
         ELSE IF C10_AppNewer /\ rx'.sd # info.fwid.sd
         THEN /\ C10_Requested("DFU_TYPE_SD")
              /\ m_transaction'.target_fwid_union.sd = rx'.sd
         ELSE IF C10_AppNewer
         THEN /\ C10_Requested("DFU_TYPE_APP")
              /\ m_transaction'.target_fwid_union.app = rx'.app
         ELSE C10_Untouched]_vars

\* a newer application on another SoftDevice, with no newer bootloader,
\* made the node ask for the SoftDevice
C10_Witness ==
    /\ rx.packet_type = "DFU_PACKET_TYPE_FWID"
    /\ rx.bootloader <= info.fwid.bootloader
    /\ rx.sd # info.fwid.sd
    /\ m_state = "BL_STATE_DFU_REQ"
    /\ m_transaction.type = "DFU_TYPE_SD"
    /\ m_transaction.target_fwid_union.sd = rx.sd

(***************************************************************************)
(* SpecEvict: start packets missed again and again.  An application        *)
(* request after boot; the mesh offers transaction ids in rising order,    *)
(* none newer than the next unused one, and the start packet of every      *)
(* offer is missed, until the ring of recorded ids has gone round.         *)
(***************************************************************************)
EvictConfigs ==
    { c \in MainConfigs : ~c.public_key /\ c.sd_intact /\ ~c.app_intact }

EvictTids ==
    { tid \in 0 .. MaxEvictTid : tid <= m_tid_index + 1 }

EvictState ==
    { StatePacket("DFU_TYPE_APP", au, tid, 1, AppId(0, 0, 0)) :
        au \in 0 .. 1, tid \in EvictTids }

EvictData ==
    IF m_tid_index < MaxInsertions
    THEN { DataPacket(tid, 1) : tid \in EvictTids }
    ELSE {}

InitEvict == InitWith(EvictConfigs)

NextEvict ==
    \/ BootloaderInit
    \/ RxFwid({FwidPacket(OwnApp, OwnBootloader + 1, OwnSd)}, "brief")
    \/ RxState(EvictState, "brief")
    \/ RxData(EvictData, "brief")
    \/ RxDataReq(MainDataReq, "brief")
    \/ RxDataRsp({DataRspPacket(1, 1)}, "brief")
    \/ RtcIrq

SpecEvict == InitEvict /\ [][NextEvict]_vars

(***************************************************************************)
(* C9: in DFU_READY a DATA frame of the adopted transaction id with        *)
(* segment # 0 writes that id into the next slot of tid_cache (slots are   *)
(* used in turn, so it stays for the next 7 insertions) and puts the node  *)
(* back in DFU_REQ for the same type and target; nothing else writes the   *)
(* cache; an id held in the cache is never adopted, and an offer that      *)
(* qualifies with an id outside the cache is.                              *)
(***************************************************************************)
C9_MissedStartStep ==
    /\ m_state = "BL_STATE_DFU_READY"
    /\ rx'.packet_type = "DFU_PACKET_TYPE_DATA"
    /\ rx'.current
    /\ ~rx'.start

C9_Recorded ==
    /\ m_state' = "BL_STATE_DFU_REQ"
    /\ end_reason' = "none"
    /\ m_transaction'.type = m_transaction.type
    /\ m_transaction'.target_fwid_union = m_transaction.target_fwid_union
    /\ m_tid_cache' =
         [m_tid_cache EXCEPT ![(m_tid_index % TRANSACTION_ID_CACHE_SIZE) + 1] =
                                 m_transaction.transaction_id]
    /\ m_tid_index' = (m_tid_index + 1) % 256

C9_CachedNeverAdopted ==
    m_state = "BL_STATE_DFU_READY" =>
        /\ \A i \in DOMAIN m_tid_cache :
              m_tid_cache[i] # m_transaction.transaction_id
        /\ <<m_transaction.authority, m_transaction.transaction_id>> = best_offer

C9_MissedStart ==
    /\ []C9_CachedNeverAdopted
    /\ [][/\ C9_MissedStartStep => C9_Recorded
          /\ (m_tid_cache' # m_tid_cache \/ m_tid_index' # m_tid_index) =>
                (C9_MissedStartStep \/ ev'.op = "init")]_vars

\* id 1, the first to be recorded, is adopted again once later insertions
\* have gone round the ring and overwritten it
C9_Witness ==
    /\ m_state = "BL_STATE_DFU_READY"
    /\ m_tid_index > TRANSACTION_ID_CACHE_SIZE
    /\ m_transaction.transaction_id = 1
    /\ \A i \in DOMAIN m_tid_cache : m_tid_cache[i] # 1


(***************************************************************************)
(* SpecInit: boot from every content of the bootloader info page: each     *)
(* flag set or cleared, valid and invalid versions, with and without a     *)
(* key, entries present, the journal missing (created, or not), a required *)
(* entry missing.                                                          *)
(***************************************************************************)
InitData ==
    { StartPacket(1, <<U32(1, 49152), U32(0, 4), 0, TRUE>>), DataPacket(1, 1) }

InitInit == InitWith(InfoConfigs)

NextInit ==
    \/ BootloaderInit
    \/ RxFwid({FwidPacket(OwnApp, OwnBootloader + 1, OwnSd)}, "brief")
    \/ RxState(MainState, "brief")
    \/ RxData(InitData, "brief")
    \/ RxDataReq(MainDataReq, "brief")
    \/ RxDataRsp({DataRspPacket(1, 1)}, "brief")
    \/ RtcIrq

SpecInit == InitInit /\ [][NextInit]_vars

(***************************************************************************)
(* C11: bootloader_init with the required entries there (the journal       *)
(* created if it was not) leaves the node asking for a SoftDevice when     *)
(* sd_intact is clear or the SoftDevice version is the invalid one; else   *)
(* asking for an application when app_intact is clear or the application   *)
(* version is the invalid one; else in FIND_FWID.  With a required entry   *)
(* missing it ends with INVALID_PERSISTANT_STORAGE, no state entered: no   *)
(* beacon, no timer.                                                       *)
(***************************************************************************)
C11_Entered(state, type, timeout) ==
    /\ end_reason' = "none"
    /\ m_state' = state
    /\ m_transaction'.type = type
    /\ timer' = [armed |-> TRUE, timeout |-> timeout]
    /\ mp_beacon'.tx

C11_InitialState ==
    [][ev'.op = "init" =>
         IF info.entries \in {"missing", "no_journal_put_fails"}
         THEN /\ end_reason' = "BL_END_ERROR_INVALID_PERSISTANT_STORAGE"
              /\ mp_beacon' = NoBeacon
              /\ ~timer'.armed
         ELSE IF ~info.sd_intact \/ info.fwid.sd = SD_VERSION_INVALID
         THEN C11_Entered("BL_STATE_DFU_REQ", "DFU_TYPE_SD", "STATE_TIMEOUT_REQ")
         ELSE IF ~info.app_intact
                 \/ info.fwid.app.app_version = APP_VERSION_INVALID
         THEN C11_Entered("BL_STATE_DFU_REQ", "DFU_TYPE_APP", "STATE_TIMEOUT_REQ")
         ELSE C11_Entered("BL_STATE_FIND_FWID", "DFU_TYPE_NONE",
                          "STATE_TIMEOUT_FIND_FWID")]_vars

\* both flags set, the journal just created, the application version
\* invalid: the node asks for an application
C11_Witness ==
    /\ ev.op = "init"
    /\ info.sd_intact /\ info.app_intact
    /\ info.fwid.sd # SD_VERSION_INVALID
    /\ info.fwid.app.app_version = APP_VERSION_INVALID
    /\ m_state = "BL_STATE_DFU_REQ"
    /\ m_transaction.type = "DFU_TYPE_APP"

(***************************************************************************)
(* C12: in every state the node is left in by a handler,                   *)
(* segments_remaining <= segment_count <= 0xFFFF.                          *)
(***************************************************************************)
C12_RemainingWithinCount ==
    /\ m_transaction.segments_remaining <= m_transaction.segment_count
    /\ m_transaction.segment_count <= UINT16_MAX

(***************************************************************************)
(* C13: a packet handled in DFU_READY that leaves the node in DFU_READY    *)
(* for the same type and target leaves transaction_id no smaller than it   *)
(* was.                                                                    *)
(***************************************************************************)
C13_TidMonotone ==
    [][( /\ m_state = "BL_STATE_DFU_READY"
         /\ m_state' = "BL_STATE_DFU_READY"
         /\ ev'.op = "rx"
         /\ m_transaction'.type = m_transaction.type
         /\ m_transaction'.target_fwid_union = m_transaction.target_fwid_union ) =>
           m_transaction'.transaction_id >= m_transaction.transaction_id]_vars

(***************************************************************************)
(* SpecCache: the two duplicate caches from boot on.  READY offers of      *)
(* every transaction id, 0 among them, and DATA_REQ frames for every       *)
(* segment number, 0 among them; the offer or request handled is kept      *)
(* whole.                                                                  *)
(***************************************************************************)
CacheState ==
    UNION { { StatePacket(ty, 1, tid, 1, id) : tid \in Tids, id \in ReadyIds(ty) } :
            ty \in DfuTypes }

CacheDataReq ==
    { DataReqPacket(tid, seg) : tid \in {0, 1}, seg \in Segments }

InitCache == InitWith(ReadyConfigs)

NextCache ==
    \/ BootloaderInit
    \/ RxFwid(MainFwid, "brief")
    \/ RxState(CacheState, "whole")
    \/ RxData(ReadyData, "brief")
    \/ RxDataReq(CacheDataReq, "whole")
    \/ RxDataRsp({DataRspPacket(1, 1)}, "brief")
    \/ RtcIrq

SpecCache == InitCache /\ [][NextCache]_vars

(***************************************************************************)
(* C14: a cache lookup hits only on a value that was written to the cache. *)
(* A READY offer of the request's type is turned away by the m_tid_cache   *)
(* lookup only if one of the slots written so far holds its transaction    *)
(* id; a DATA_REQ of the current transaction is dropped by the m_req_cache *)
(* lookup only if one of the slots written so far holds its segment.       *)
(***************************************************************************)
C14_Written(cache, index, v) ==
    \E i \in DOMAIN cache : i <= index /\ cache[i] = v

C14_OfferTurnedAway ==
    /\ ev'.op = "rx"
    /\ rx'.packet_type = "DFU_PACKET_TYPE_STATE"
    /\ m_state \in {"BL_STATE_DFU_REQ", "BL_STATE_DFU_READY"}
    /\ rx'.dfu_type = m_transaction.type
    /\ \E i \in DOMAIN m_tid_cache : m_tid_cache[i] = rx'.transaction_id

C14_RequestDropped ==
    /\ ev'.op = "rx"
    /\ rx'.packet_type = "DFU_PACKET_TYPE_DATA_REQ"
    /\ rx'.transaction_id = m_transaction.transaction_id
    /\ pool_used < PoolSize
    /\ \E i \in DOMAIN m_req_cache : m_req_cache[i] = rx'.segment

C14_NoFalsePositive ==
    [][/\ C14_OfferTurnedAway =>
            C14_Written(m_tid_cache, m_tid_index, rx'.transaction_id)
       /\ C14_RequestDropped =>
            C14_Written(m_req_cache, m_req_index, rx'.segment)]_vars

(***************************************************************************)
(* SpecServe: a peer asking again and again.  A transfer of six segments,  *)
(* the first five of which arrive in order; then DATA_REQ frames of the    *)
(* transaction for those five segments, asked for in turn or once more,    *)
(* until the ring of served segments has been written MaxServes times.     *)
(***************************************************************************)
ServeData ==
    { StartPacket(1, <<U32(1, 49152), U32(0, 4 * MaxReqSeg + 4), 0, TRUE>>) }
    \cup { DataPacket(1, seg) :
             seg \in { Cardinality(dfu.written) + 1 } \cap (1 .. MaxReqSeg) }

\* the segment asked for next in turn, and the one asked for last
ServeTurn ==
    { (m_req_index % MaxReqSeg) + 1 }
    \cup (IF m_req_index > 0 THEN { ((m_req_index - 1) % MaxReqSeg) + 1 } ELSE {})

ServeDataReq ==
    IF Cardinality(dfu.written) = MaxReqSeg /\ m_req_index < MaxServes
    THEN { DataReqPacket(1, seg) : seg \in ServeTurn }
    ELSE {}

InitServe == InitWith(EvictConfigs)

NextServe ==
    \/ BootloaderInit
    \/ RxFwid({FwidPacket(OwnApp, OwnBootloader + 1, OwnSd)}, "brief")
    \/ RxState({StatePacket("DFU_TYPE_APP", 1, 1, 1, AppId(0, 0, 0))}, "brief")
    \/ RxData(ServeData, "brief")
    \/ RxDataReq(ServeDataReq, "brief")
    \/ RxDataRsp({DataRspPacket(0, 1)}, "brief")
    \/ RtcIrq

SpecServe == InitServe /\ [][NextServe]_vars

(***************************************************************************)
(* C15: over the DATA_REQ frames of one transaction, no segment has a      *)
(* DATA_RSP queued for it more than twice.                                 *)
(***************************************************************************)
C15_ServedAtMostTwice ==
    \A seg \in DOMAIN rsp_sent : rsp_sent[seg] <= 2

(***************************************************************************)
(* C16: a start packet that takes the node to DFU_TARGET leaves, for a     *)
(* bootloader transfer, p_bank_addr = segment_app.start +                  *)
(* segment_app.length - (length rounded up to whole pages) - PAGE_SIZE,    *)
(* and for an application or SoftDevice transfer p_bank_addr =             *)
(* p_start_addr.                                                           *)
(***************************************************************************)
C16_RoundUp(length_bytes) ==
    u32_page_floor(u32_add(length_bytes, U32(0, PAGE_SIZE - 1)))

C16_BankAddr ==
    [][(StartHandled /\ m_state' = "BL_STATE_DFU_TARGET") =>
           m_transaction'.p_bank_addr =
               IF m_transaction.type = "DFU_TYPE_BOOTLOADER"
               THEN u32_sub(u32_sub(u32_add(info.segment_app.start,
                                            info.segment_app.length),
                                    C16_RoundUp(u32_mul4(rx'.length))),
                            U32(0, PAGE_SIZE))
               ELSE rx'.start_address]_vars

(***************************************************************************)
(* C17: in DFU_TARGET the state timeout runs from the last DATA frame that *)
(* advanced the transfer: a DATA frame whose segment is written, and that  *)
(* leaves the node in DFU_TARGET, sets the timeout anew.                   *)
(***************************************************************************)
C17_SegmentWritten ==
    /\ m_state = "BL_STATE_DFU_TARGET"
    /\ ev'.op = "rx"
    /\ rx'.packet_type = "DFU_PACKET_TYPE_DATA"
    /\ ev'.dfu_data = "ok"
    /\ m_state' = "BL_STATE_DFU_TARGET"
    /\ end_reason' = "none"

C17_TimeoutFromLastSegment ==
    [][C17_SegmentWritten => ev'.set_timeout]_vars

(***************************************************************************)
(* C18: a start packet handled in DFU_READY whose byte range does not fit  *)
(* the segment of the transaction's type, and that leaves the node in      *)
(* DFU_READY, leaves start_addr, bank_addr, length, signature_length,      *)
(* segment_count and segments_remaining as they were.                      *)
(***************************************************************************)
C18_Fields(t) ==
    <<t.p_start_addr, t.p_bank_addr, t.length, t.signature_length,
      t.segment_count, t.segments_remaining>>

C18_Rejected ==
    /\ StartHandled
    /\ ~C2_Inside(SegmentOf(Cur, m_transaction.type),
                  rx'.start_address, rx'.length)
    /\ m_state' = "BL_STATE_DFU_READY"

C18_RejectedStartKeepsRecord ==
    [][C18_Rejected => C18_Fields(m_transaction') = C18_Fields(m_transaction)]_vars

(***************************************************************************)
(* C19: between handler runs the outgoing beacon matches the state.  In    *)
(* FIND_FWID an FWID beacon is being transmitted, in DFU_REQ a REQ beacon  *)
(* of the transaction's type with authority 0, in DFU_READY a READY beacon *)
(* of the transaction's type, and in DFU_TARGET no beacon is being         *)
(* transmitted.                                                            *)
(***************************************************************************)
C19_BeaconOf(state) ==
    CASE state = "BL_STATE_FIND_FWID" ->
             mp_beacon.type = "BEACON_TYPE_FWID" /\ mp_beacon.tx
      [] state = "BL_STATE_DFU_REQ" ->
             /\ mp_beacon.type = ReqBeacon(m_transaction.type)
             /\ mp_beacon.tx
             /\ mp_beacon.authority = 0
      [] state = "BL_STATE_DFU_READY" ->
             mp_beacon.type = ReadyBeacon(m_transaction.type) /\ mp_beacon.tx
      [] state = "BL_STATE_DFU_TARGET" -> ~mp_beacon.tx
      [] OTHER -> TRUE

C19_BeaconMatchesState ==
    Running => C19_BeaconOf(m_state)

(***************************************************************************)
(* C20: the flash writer's dfu_data is called only while the node is in    *)
(* DFU_TARGET: a DATA or DATA_RSP packet handled in any other state calls  *)
(* no dfu_data.                                                            *)
(***************************************************************************)
C20_DataHandled ==
    /\ ev'.op = "rx"
    /\ rx'.packet_type \in {"DFU_PACKET_TYPE_DATA", "DFU_PACKET_TYPE_DATA_RSP"}
    /\ ev'.dfu_data # "not_called"

C20_WriteOnlyInTarget ==
    [][C20_DataHandled => m_state = "BL_STATE_DFU_TARGET"]_vars

(***************************************************************************)
(* C21: every transport buffer a packet handler acquires is released       *)
(* before the handler returns, so between handler runs the core holds at   *)
(* most the one beacon buffer.                                             *)
(***************************************************************************)
C21_OnlyBeaconHeld ==
    Running => pool_used <= 1

(***************************************************************************)
(* SpecLive: one transfer of two segments to a node whose application is   *)
(* damaged, its segments written by DATA and by DATA_RSP frames in any     *)
(* order.  Only READY, DATA and DATA_RSP frames are received; timer        *)
(* expiries may or may not be delivered.                                   *)
(***************************************************************************)
LiveConfigs == { c \in MainConfigs : c.sd_intact /\ ~c.app_intact }

LiveSegments == 1 .. MaxSeg

LiveStart == StartPacket(1, <<U32(1, 49152), U32(0, 4 * MaxSeg), 0, TRUE>>)

InitLive == InitWith(LiveConfigs)

NextLive ==
    \/ BootloaderInit
    \/ RxState({StatePacket("DFU_TYPE_APP", 1, 1, 1, AppId(0, 0, 0))}, "brief")
    \/ RxData({LiveStart} \cup {DataPacket(1, seg) : seg \in LiveSegments},
              "brief")
    \/ RxDataRsp({DataRspPacket(1, seg) : seg \in LiveSegments}, "brief")
    \/ RtcIrq

SpecLive == InitLive /\ [][NextLive]_vars

(***************************************************************************)
(* C22: in DFU_TARGET, once every segment 1..segment_count has been        *)
(* written to flash, by DATA or by DATA_RSP frames, the DATA frames that   *)
(* keep arriving take the node to its finalization: a DATA frame of the    *)
(* transaction for one of the segments changes the state of the node       *)
(* (it finalizes, or brings segments_remaining down).  Where every such    *)
(* frame leaves the state as it is, the node stays with                    *)
(* segments_remaining > 0 for as long as frames arrive.                    *)
(***************************************************************************)
C22_AllWritten ==
    /\ Running
    /\ m_state = "BL_STATE_DFU_TARGET"
    /\ m_transaction.segment_count \in LiveSegments
    /\ \A seg \in 1 .. m_transaction.segment_count :
         dfu_has_entry(Cur, addr_from_seg(Cur, seg))

\* the node after a DATA frame of the transaction
C22_AfterData(seg) ==
    handle_data_packet(Cur, DataPacket(m_transaction.transaction_id, seg),
                       TRUE, TRUE)

C22_Same(n) == [n EXCEPT !.ev = ev] = Cur

C22_DataFramesFinalize ==
    C22_AllWritten =>
        \E seg \in 1 .. m_transaction.segment_count :
            ~C22_Same(C22_AfterData(seg))

(***************************************************************************)
(* C23: the application segment is never started while the application is  *)
(* known to be unusable: when abort starts the application, either         *)
(* app_intact is set and the application version is not the invalid        *)
(* sentinel, or a transfer has completed.                                  *)
(***************************************************************************)
C23_AppUsable ==
    /\ info.app_intact
    /\ info.fwid.app.app_version # APP_VERSION_INVALID

C23_UnusableAppNotStarted ==
    app_start = "segment_app" =>
        (C23_AppUsable \/ end_reason = "BL_END_SUCCESS")

(***************************************************************************)
(* SpecMic: the negotiation of SpecReady, each READY offer carrying a MIC  *)
(* of its own: offers of different (authority, transaction_id) differ in   *)
(* their MIC.                                                              *)
(***************************************************************************)
MicOf(authority, transaction_id) ==
    authority * (MaxTid + 1) + transaction_id + 1

MicState ==
    UNION { { StatePacket(ty, au, tid, MicOf(au, tid), id) :
                au \in 0 .. MaxAuth, tid \in Tids, id \in ReadyIds(ty) } :
            ty \in DfuTypes }

InitMic == InitWith(ReadyConfigs)

NextMic ==
    \/ BootloaderInit
    \/ RxFwid(MainFwid, "brief")
    \/ RxState(MicState, "brief")
    \/ RxData(ReadyData, "brief")
    \/ RxDataReq(MainDataReq, "brief")
    \/ RxDataRsp({DataRspPacket(1, 1)}, "brief")
    \/ RtcIrq

SpecMic == InitMic /\ [][NextMic]_vars

(***************************************************************************)
(* C24: in DFU_READY the transaction record describes a single offer:      *)
(* ready_mic is the MIC carried by the READY packet whose                  *)
(* (authority, transaction_id) is the adopted pair.                        *)
(***************************************************************************)
C24_MicOfAdoptedOffer ==
    (Running /\ m_state = "BL_STATE_DFU_READY") =>
        m_transaction.ready_mic =
            MicOf(m_transaction.authority, m_transaction.transaction_id)

(***************************************************************************)
(* C25: in every state the node has not terminated in, the state timer is  *)
(* armed, and with no further packet received the timer expiries take the  *)
(* node to abort after at most two timeouts.                               *)
(***************************************************************************)
\* the next timer expiry, if the node is running with its timer armed
C25_Timeout(s) ==
    IF Halted(s) \/ ~s.timer.armed THEN s
    ELSE bootloader_rtc_irq_handler([s EXCEPT !.ev = Event("rtc")])

C25_AbortWithinTwoTimeouts ==
    Running =>
        /\ timer.armed
        /\ Halted(C25_Timeout(C25_Timeout(Cur)))

\* in DFU_TARGET the first timeout leads back to DFU_REQ, the second aborts
C25_Witness ==
    /\ Running
    /\ m_state = "BL_STATE_DFU_TARGET"
    /\ timer.armed
    /\ C25_Timeout(Cur).m_state = "BL_STATE_DFU_REQ"
    /\ ~Halted(C25_Timeout(Cur))
    /\ C25_Timeout(C25_Timeout(Cur)).end_reason = "BL_END_ERROR_NO_START"

=============================================================================
